---------------------------- MODULE Spec2Model ----------------------------
(***************************************************************************)
(* A model of the PhonePe transaction dashboard (src/app1.py): the region  *)
(* name normalisation of the two loaders, the memoised loading of the nine *)
(* tables, the aggregation helpers, the three chart builders and the       *)
(* render pass of the script.                                              *)
(*                                                                         *)
(* Python strings are sequences of one-character strings, so that lower()  *)
(* and strip() are computed character by character.  A cell of a table, or *)
(* a JSON value, is a record [kind, s, n, d].                              *)
(***************************************************************************)
EXTENDS Integers, Sequences, FiniteSets, TLC

VARIABLES
    \* --- normalisation of one region name (SpecNorm)
    normBase,       \* the name the raw value spells, before case and padding
    normProps,      \* geographic path: the feature's "properties" member
    normRaw,        \* the raw region value
    normWith,       \* tabular path: the column also holds a well-formed name
    normPath,       \* "none" | "geo" | "tab"
    normStage,      \* "input" | "once" | "twice"
    normOut,        \* the value after one pass
    normOut2,       \* the value after a second pass over normOut
    \* --- one call of load_table_data (SpecLoad)
    loadCreateOk,   \* create_engine returns (TRUE) or raises (FALSE)
    loadFetched,    \* what pd.read_sql does: [ok, df]
    loadStage,      \* "input" | "done"
    loadResult,     \* what load_table_data returned
    \* --- aggregation, ratio measures and chart builders on one table (SpecAgg)
    aggIn,          \* the table the operations start from
    aggStage,       \* "input" | "grouped" | "ratio" | "charted"
    aggOp,          \* the operation applied last
    aggKey,         \* the group key of the aggregation
    aggMeasure,     \* the column the aggregation sums
    aggRaised,      \* the aggregation raised
    aggTable,       \* the table the aggregation or the ratio measure produced
    aggChartIn,     \* the table handed to the chart builder
    aggBind,        \* the columns bound to the chart
    aggChart,       \* what the chart builder returned
    \* --- one top-N selection over a table of group sums (SpecTop)
    topIn,          \* the grouped table: one row per group, in key order
    topStage,       \* "input" | "done"
    topOp,          \* the form of the selection applied
    topOut,         \* the table the selection returned
    \* --- the running application (Spec): the environment ...
    envCreateOk,    \* create_engine returns (the driver is installed)
    envUp,          \* the database answers queries
    envMissing,     \* the tables whose query fails even when the database is up
    envRows,        \* the tables of the database hold rows
    envGeoOk,       \* Indian_States.geojson can be read
    envChanges,     \* times the database went down or came back under this process
    \* --- ... the caches of the process ...
    engineCache,    \* st.cache_resource of get_database_engine
    tableCache,     \* st.cache_data of load_table_data, per table name
    allCache,       \* st.cache_data of load_all_data
    geoCache,       \* st.cache_data of load_geojson_data
    queryCount,     \* queries issued by this process, per table name
    engineCount,    \* engines this process constructed
    geoCount,       \* times this process read the GeoJSON file
    rerendered,     \* a run of the script began with load_all_data cached
    \* --- ... the run of the script in progress ...
    runAt,          \* "idle" | "load_all_data" | "load_geojson_data" | "page"
    runIndex,       \* the iteration of the loop of load_all_data (0 outside it)
    runStops,       \* runs of this process stopped inside a loader that stored nothing
    \* --- ... and the last render pass
    renderPage,     \* the page selected in the sidebar
    renderStatus,   \* "none" | "running" | "ok" | "exception" | "stopped"
    renderWarnings, \* the st.warning notices shown
    renderCharts,   \* the charts drawn
    renderSawUp     \* the database answered queries when the pass ended

normVars == <<normBase, normProps, normRaw, normWith, normPath, normStage, normOut, normOut2>>
loadVars == <<loadCreateOk, loadFetched, loadStage, loadResult>>
aggVars == <<aggIn, aggStage, aggOp, aggKey, aggMeasure, aggRaised, aggTable, aggChartIn, aggBind, aggChart>>
topVars == <<topIn, topStage, topOp, topOut>>

envVars == <<envCreateOk, envUp, envMissing, envRows, envGeoOk, envChanges>>
cacheVars == <<engineCache, tableCache, allCache, geoCache, queryCount, engineCount, geoCount,
               rerendered>>
runVars == <<runAt, runIndex, runStops>>
renderVars == <<renderPage, renderStatus, renderWarnings, renderCharts, renderSawUp>>
appVars == <<envVars, cacheVars, runVars, renderVars>>

vars == <<normVars, loadVars, aggVars, topVars, appVars>>

\* the variables each specification leaves alone
notNormVars == <<loadVars, aggVars, topVars, appVars>>
notLoadVars == <<normVars, aggVars, topVars, appVars>>
notAggVars == <<normVars, loadVars, topVars, appVars>>
notTopVars == <<normVars, loadVars, aggVars, appVars>>
notAppVars == <<normVars, loadVars, aggVars, topVars>>

-----------------------------------------------------------------------------
(* Bounds of the model *)

\* leading / trailing whitespace characters put around a name
MaxPad == 1
\* letter-case patterns: every i-th letter upper-cased, for strides up to this
MaxStride == 2
\* rows of a fetched table
MaxRows == 2
\* rows of a table that is aggregated
MaxAggRows == 2
\* groups of a table a top-N selection is taken from
MaxGroups == 11
\* queries per table, engines and reads of the GeoJSON file the model follows
\* per process
MaxQueries == 3
\* events from outside the script the model follows per process: the
\* database going down or coming back, and streamlit stopping a run inside a
\* loader that did its work and stored nothing (the stops that lose no work
\* are not counted)
MaxEvents == 2

-----------------------------------------------------------------------------
(* Values *)

Str(s) == [kind |-> "str", s |-> s, n |-> 0, d |-> 1]
\* an integer, and a finite float n/d
Num(k) == [kind |-> "num", s |-> <<>>, n |-> k, d |-> 1]
Ratio(n, d) == [kind |-> "num", s |-> <<>>, n |-> n, d |-> d]
\* float infinities
Inf == [kind |-> "inf", s |-> <<>>, n |-> 0, d |-> 1]
NegInf == [kind |-> "-inf", s |-> <<>>, n |-> 0, d |-> 1]
\* Python None / SQL NULL
None == [kind |-> "none", s |-> <<>>, n |-> 0, d |-> 1]
\* pandas missing value
NaN == [kind |-> "nan", s |-> <<>>, n |-> 0, d |-> 1]
\* a dictionary key that is not there
Absent == [kind |-> "absent", s |-> <<>>, n |-> 0, d |-> 1]
\* no value: the operation raised
Raised == [kind |-> "raised", s |-> <<>>, n |-> 0, d |-> 1]
\* not computed yet
Unset == [kind |-> "unset", s |-> <<>>, n |-> 0, d |-> 1]

IsStr(v) == v.kind = "str"
IsMissing(v) == v.kind \in {"none", "nan"}

-----------------------------------------------------------------------------
(* Python str.lower() and str.strip() *)

UpperChars == <<"A", "B", "C", "D", "E", "F", "G", "H", "I", "J", "K", "L", "M",
                "N", "O", "P", "Q", "R", "S", "T", "U", "V", "W", "X", "Y", "Z">>
LowerChars == <<"a", "b", "c", "d", "e", "f", "g", "h", "i", "j", "k", "l", "m",
                "n", "o", "p", "q", "r", "s", "t", "u", "v", "w", "x", "y", "z">>

\* the characters str.strip() removes (the ASCII ones the model uses)
Whitespace == {" ", "\t", "\n"}

lower_char(c) ==
    IF \E i \in 1..26 : UpperChars[i] = c
    THEN LowerChars[CHOOSE i \in 1..26 : UpperChars[i] = c]
    ELSE c

upper_char(c) ==
    IF \E i \in 1..26 : LowerChars[i] = c
    THEN UpperChars[CHOOSE i \in 1..26 : LowerChars[i] = c]
    ELSE c

str_lower(s) == [i \in 1..Len(s) |-> lower_char(s[i])]

RECURSIVE str_lstrip(_)
str_lstrip(s) ==
    IF s # <<>> /\ Head(s) \in Whitespace THEN str_lstrip(Tail(s)) ELSE s

RECURSIVE str_rstrip(_)
str_rstrip(s) ==
    IF s # <<>> /\ s[Len(s)] \in Whitespace
    THEN str_rstrip(SubSeq(s, 1, Len(s) - 1))
    ELSE s

str_strip(s) == str_rstrip(str_lstrip(s))

-----------------------------------------------------------------------------
(* Region names *)

s_orissa == <<"o", "r", "i", "s", "s", "a">>
s_odisha == <<"o", "d", "i", "s", "h", "a">>
s_andaman_and_nicobar ==
    <<"a", "n", "d", "a", "m", "a", "n", " ", "a", "n", "d", " ",
      "n", "i", "c", "o", "b", "a", "r">>
s_andaman_nicobar_islands ==
    <<"a", "n", "d", "a", "m", "a", "n", " ", "&", " ",
      "n", "i", "c", "o", "b", "a", "r", " ", "i", "s", "l", "a", "n", "d", "s">>
s_dadra_and ==
    <<"d", "a", "d", "r", "a", " ", "a", "n", "d", " ", "n", "a", "g", "a", "r", " ",
      "h", "a", "v", "e", "l", "i", " ", "a", "n", "d", " ", "d", "a", "m", "a", "n", " ",
      "a", "n", "d", " ", "d", "i", "u">>
s_dadra_amp ==
    <<"d", "a", "d", "r", "a", " ", "&", " ", "n", "a", "g", "a", "r", " ",
      "h", "a", "v", "e", "l", "i", " ", "&", " ", "d", "a", "m", "a", "n", " ",
      "&", " ", "d", "i", "u">>
\* names no alias table mentions
s_goa == <<"g", "o", "a">>
s_west_orissa == <<"w", "e", "s", "t", " ", "o", "r", "i", "s", "s", "a">>
s_andaman_and_nicobar_islands ==
    <<"a", "n", "d", "a", "m", "a", "n", " ", "a", "n", "d", " ",
      "n", "i", "c", "o", "b", "a", "r", " ", "i", "s", "l", "a", "n", "d", "s">>
s_or_issa == <<"o", "r", " ", "i", "s", "s", "a">>

\* line 54: the one name the geographic loader rewrites
geo_alias_key == s_orissa
geo_alias_value == s_odisha

\* a variant of the alias table whose first value is itself a key
state_mappings_chained ==
    { <<s_andaman_and_nicobar, s_andaman_and_nicobar_islands>>,
      <<s_andaman_and_nicobar_islands, s_andaman_nicobar_islands>>,
      <<s_dadra_and, s_dadra_amp>>,
      <<s_orissa, s_odisha>> }

\* lines 82-86: the alias table of the tabular loader, as (key, value) pairs
state_mappings ==
    { <<s_andaman_and_nicobar, s_andaman_nicobar_islands>>,
      <<s_dadra_and, s_dadra_amp>>,
      <<s_orissa, s_odisha>> }

mapping_keys == { m[1] : m \in state_mappings }
mapping_values == { m[2] : m \in state_mappings }


-----------------------------------------------------------------------------
(* Geographic reference loader: load_geojson_data, lines 36-64 *)

\* A feature of the file: props says whether the "properties" member is an
\* object, null or absent; hasName whether the object holds "NAME_1".
Feature(props, hasName, name) ==
    [props |-> props, hasName |-> hasName, NAME_1 |-> name, State_Name |-> Unset]

\* line 48: feature["properties"].get("NAME_1", "")
feature_state_name(f) ==
    IF f.props = "object" /\ f.hasName THEN f.NAME_1 ELSE Str(<<>>)

\* lines 51-55: lower, strip, and the hardcoded Odisha fix
standardized_name(state_name) ==
    LET lowered == str_strip(str_lower(state_name))
    IN  IF lowered = geo_alias_key THEN geo_alias_value ELSE lowered

\* line 48 raises AttributeError when "properties" is null: None has no get()
feature_raises(f) == f.props = "null"

\* lines 45-59: one iteration of the loop over the features
process_feature(f) ==
    LET state_name == feature_state_name(f)
    IN  [f EXCEPT !.props = "object",
                  !.State_Name = IF IsStr(state_name)
                                 THEN Str(standardized_name(state_name.s))
                                 ELSE Str(<<>>)]

\* lines 39-64.  file.ok is FALSE when open() or json.load() raises.
load_geojson_data(file) ==
    IF ~file.ok \/ \E i \in 1..Len(file.features) : feature_raises(file.features[i])
    THEN [features |-> <<>>, error |-> TRUE]
    ELSE [features |-> [i \in 1..Len(file.features) |->
                            process_feature(file.features[i])],
          error |-> FALSE]

-----------------------------------------------------------------------------
(* Tables (pandas DataFrame) *)

\* pd.DataFrame(): no rows, no columns
EmptyDF == [columns |-> <<>>, rows |-> <<>>]

HasCol(df, c) == \E i \in 1..Len(df.columns) : df.columns[i] = c
ColIndex(df, c) == CHOOSE i \in 1..Len(df.columns) : df.columns[i] = c
Column(df, c) == [r \in 1..Len(df.rows) |-> df.rows[r][ColIndex(df, c)]]

\* DataFrame.empty: some axis has length 0
df_empty(df) == Len(df.rows) = 0 \/ Len(df.columns) = 0

-----------------------------------------------------------------------------
(* Tabular loader: load_table_data, lines 66-95 *)

\* Series.str raises AttributeError unless the column holds strings (possibly
\* mixed with other objects) or nothing but missing values: a numeric column
\* has a numeric dtype.
str_accessor_ok(col) ==
    \/ \E i \in 1..Len(col) : IsStr(col[i])
    \/ \A i \in 1..Len(col) : IsMissing(col[i])

\* line 79, element-wise: .str.lower() and .str.strip() give a missing value
\* for every element that is not a string
series_str_lower(v) == IF IsStr(v) THEN Str(str_lower(v.s)) ELSE NaN
series_str_strip(v) == IF IsStr(v) THEN Str(str_strip(v.s)) ELSE NaN

\* s holds k as a run of consecutive characters
Contains(s, k) ==
    \E i \in 0..(Len(s) - Len(k)) : SubSeq(s, i + 1, i + Len(k)) = k

\* a variant of line 87 that rewrites every value containing a key
series_replace_contains(v) ==
    IF IsStr(v) /\ \E m \in state_mappings : Contains(v.s, m[1])
    THEN Str((CHOOSE m \in state_mappings : Contains(v.s, m[1]))[2])
    ELSE v

\* line 87, element-wise: Series.replace(dict) replaces whole values
series_replace(v) ==
    IF IsStr(v) /\ v.s \in mapping_keys
    THEN Str((CHOOSE m \in state_mappings : m[1] = v.s)[2])
    ELSE v

\* a variant of lines 79-87 that does not lower-case
standardize_state_no_lower(v) == series_replace(series_str_strip(v))

\* lines 79-87 on one cell
standardize_state(v) == series_replace(series_str_strip(series_str_lower(v)))

\* line 90: rename(columns={"States": "State"})
rename_States(columns) ==
    [i \in 1..Len(columns) |-> IF columns[i] = "States" THEN "State" ELSE columns[i]]

\* a variant of lines 78-90 that drops the rows whose region is missing
standardize_table_dropna(df) ==
    LET k == ColIndex(df, "States")
        keep == { r \in 1..Len(df.rows) : ~IsMissing(df.rows[r][k]) }
        RECURSIVE Kept(_)
        Kept(r) == IF r > Len(df.rows) THEN <<>>
                   ELSE (IF r \in keep
                         THEN << [c \in 1..Len(df.columns) |->
                                    IF c = k THEN standardize_state(df.rows[r][c])
                                             ELSE df.rows[r][c]] >>
                         ELSE <<>>) \o Kept(r + 1)
    IN  [columns |-> rename_States(df.columns), rows |-> Kept(1)]

\* lines 78-90 on a fetched table that has a "States" column
standardize_table(df) ==
    LET k == ColIndex(df, "States")
    IN  [columns |-> rename_States(df.columns),
         rows |-> [r \in 1..Len(df.rows) |->
                     [c \in 1..Len(df.columns) |->
                        IF c = k THEN standardize_state(df.rows[r][c])
                                 ELSE df.rows[r][c]]]]

\* lines 24-31: create_engine returns the engine, or raises and None is
\* returned
get_database_engine(createOk) == IF createOk THEN "engine" ELSE "none"

\* a variant of lines 69-95 without the try/except: a failing query or
\* normalisation leaves the function by an exception
load_table_data_no_except(engine, fetched) ==
    IF engine = "none"
    THEN [df |-> EmptyDF, error |-> FALSE, queried |-> FALSE, raised |-> FALSE]
    ELSE IF ~fetched.ok
    THEN [df |-> EmptyDF, error |-> FALSE, queried |-> TRUE, raised |-> TRUE]
    ELSE IF ~HasCol(fetched.df, "States")
    THEN [df |-> fetched.df, error |-> FALSE, queried |-> TRUE, raised |-> FALSE]
    ELSE IF ~str_accessor_ok(Column(fetched.df, "States"))
    THEN [df |-> fetched.df, error |-> FALSE, queried |-> TRUE, raised |-> TRUE]
    ELSE [df |-> standardize_table(fetched.df), error |-> FALSE, queried |-> TRUE,
          raised |-> FALSE]

\* lines 69-95.  engine is "engine" or "none"; fetched.ok is FALSE when
\* pd.read_sql raises, else fetched.df is the table it returns.
\* error: st.error was called; queried: the query was issued; raised: an
\* exception left the function (the except clause catches every Exception).
load_table_data(engine, fetched) ==
    IF engine = "none"
    THEN [df |-> EmptyDF, error |-> FALSE, queried |-> FALSE, raised |-> FALSE]
    ELSE IF ~fetched.ok
    THEN [df |-> EmptyDF, error |-> TRUE, queried |-> TRUE, raised |-> FALSE]
    ELSE IF ~HasCol(fetched.df, "States")
    THEN [df |-> fetched.df, error |-> FALSE, queried |-> TRUE, raised |-> FALSE]
    ELSE IF ~str_accessor_ok(Column(fetched.df, "States"))
    THEN [df |-> EmptyDF, error |-> TRUE, queried |-> TRUE, raised |-> FALSE]
    ELSE [df |-> standardize_table(fetched.df), error |-> FALSE, queried |-> TRUE,
          raised |-> FALSE]

-----------------------------------------------------------------------------
(* Raw region names: every base name in several letter cases, padded *)

BaseNames ==
    { s_orissa, s_odisha, s_andaman_and_nicobar, s_andaman_nicobar_islands,
      s_dadra_and, s_dadra_amp, s_goa, s_west_orissa,
      s_andaman_and_nicobar_islands, s_or_issa, <<>> }

\* s itself, and s with every m-th letter (from offset r) in upper case
CaseVariants(s) ==
    {s} \cup { [i \in 1..Len(s) |-> IF i % m = r THEN upper_char(s[i]) ELSE s[i]] :
                 m \in 1..MaxStride, r \in 0..(MaxStride - 1) }

RECURSIVE PadsOfLen(_)
PadsOfLen(k) ==
    IF k = 0 THEN { <<>> }
    ELSE { <<c>> \o p : c \in Whitespace, p \in PadsOfLen(k - 1) }

Pads == UNION { PadsOfLen(k) : k \in 0..MaxPad }

\* the spellings of base name b
Spellings(b) == { l \o v \o r : l \in Pads, r \in Pads, v \in CaseVariants(b) }

\* an integer where a name should be
SomeNumber == Num(7)

\* [base, props, raw]: a string spelling of a base name; a value that is no
\* string; a feature without "NAME_1", without "properties", or with null
\* "properties"
RawInputs ==
    UNION { { [base |-> b, props |-> "object", raw |-> Str(s)] : s \in Spellings(b) } :
              b \in BaseNames }
    \cup { [base |-> <<>>, props |-> "object", raw |-> v] : v \in {None, SomeNumber, Absent} }
    \cup { [base |-> <<>>, props |-> p, raw |-> Absent] : p \in {"absent", "null"} }

-----------------------------------------------------------------------------
(* SpecNorm: one raw region value through a loader, once and twice *)

\* the file of one feature that carries the value
geo_file_of(props, v) ==
    [ok |-> TRUE,
     features |-> << Feature(props, v # Absent, IF v = Absent THEN Unset ELSE v) >>]

\* the fetched table whose "States" column carries the value, alone or above
\* a well-formed name
fetched_of(v, with) ==
    [ok |-> TRUE,
     df |-> [columns |-> <<"States">>,
             rows |-> IF with THEN << <<v>>, <<Str(s_goa)>> >> ELSE << <<v>> >>]]

geo_pass(props, v) ==
    LET g == load_geojson_data(geo_file_of(props, v))
    IN  IF g.error THEN Raised ELSE g.features[1].State_Name

tab_pass(v, with) ==
    LET t == load_table_data("engine", fetched_of(v, with))
    IN  IF t.error THEN Raised ELSE t.df.rows[1][1]

NormInit ==
    /\ \E x \in RawInputs :
          /\ normBase = x.base
          /\ normProps = x.props
          /\ normRaw = x.raw
    /\ normWith \in BOOLEAN
    /\ normPath = "none"
    /\ normStage = "input"
    /\ normOut = Unset
    /\ normOut2 = Unset

NormIdle ==
    /\ normBase = <<>>
    /\ normProps = "object"
    /\ normRaw = Unset
    /\ normWith = FALSE
    /\ normPath = "none"
    /\ normStage = "idle"
    /\ normOut = Unset
    /\ normOut2 = Unset

NormalizeGeo ==
    /\ normStage = "input"
    /\ normWith = FALSE
    /\ normPath' = "geo"
    /\ normOut' = geo_pass(normProps, normRaw)
    /\ normStage' = "once"
    /\ UNCHANGED <<normBase, normProps, normRaw, normWith, normOut2>>
    /\ UNCHANGED notNormVars

NormalizeTab ==
    /\ normStage = "input"
    /\ normProps = "object"
    /\ normRaw # Absent
    /\ normPath' = "tab"
    /\ normOut' = tab_pass(normRaw, normWith)
    /\ normStage' = "once"
    /\ UNCHANGED <<normBase, normProps, normRaw, normWith, normOut2>>
    /\ UNCHANGED notNormVars

NormalizeAgain ==
    /\ normStage = "once"
    /\ normOut # Raised
    /\ normOut2' = IF normPath = "geo" THEN geo_pass("object", normOut)
                                       ELSE tab_pass(normOut, normWith)
    /\ normStage' = "twice"
    /\ UNCHANGED <<normBase, normProps, normRaw, normWith, normPath, normOut>>
    /\ UNCHANGED notNormVars

NormNext == NormalizeGeo \/ NormalizeTab \/ NormalizeAgain

-----------------------------------------------------------------------------
(* Claims about the normalisation (checked under SpecNorm) *)

Normalized == normStage \in {"once", "twice"}

\* C4: every region input that is missing (null or absent) or not a string
\* normalises to the empty string, without failing, on the geographic path and
\* on the tabular path.
C4_MissingYieldsEmptyString ==
    (Normalized /\ ~IsStr(normRaw)) => normOut = Str(<<>>)

\* C7: every alias-table name, in any letter case and with any leading or
\* trailing whitespace, normalises to its canonical name: "orissa" to "odisha"
\* on both paths, and on the tabular path the two multi-word aliases.
C7_AliasesNormalize ==
    (Normalized /\ IsStr(normRaw)) =>
        /\ normBase = s_orissa => normOut = Str(s_odisha)
        /\ (normPath = "tab" /\ normBase = s_andaman_and_nicobar)
              => normOut = Str(s_andaman_nicobar_islands)
        /\ (normPath = "tab" /\ normBase = s_dadra_and)
              => normOut = Str(s_dadra_amp)

\* C7 witness: an upper-cased, padded spelling of a multi-word alias went
\* through the tabular loader and came out canonical.
C7_Witness ==
    /\ normStage = "once"
    /\ normPath = "tab"
    /\ normBase = s_andaman_and_nicobar
    /\ Len(normRaw.s) > Len(normBase)
    /\ \E i \in 1..Len(normRaw.s) : normRaw.s[i] = "A"
    /\ normOut = Str(s_andaman_nicobar_islands)

\* every name of the alias tables: the keys and the canonical values
AliasTableNames == mapping_keys \cup mapping_values \cup {geo_alias_key, geo_alias_value}

\* C8: normalisation is idempotent on the alias table: for every spelling of a
\* key or of a canonical value, on each path, a second pass leaves the result
\* of the first pass as it is.
C8_Idempotent ==
    (normStage = "twice" /\ IsStr(normRaw) /\ normBase \in AliasTableNames)
        => normOut2 = normOut

\* C8 witness: an alias key was rewritten by the first tabular pass and the
\* second pass kept the canonical name.
C8_Witness ==
    /\ normStage = "twice"
    /\ normPath = "tab"
    /\ normBase = s_orissa
    /\ normRaw # Str(s_orissa)
    /\ normOut = Str(s_odisha)
    /\ normOut2 = Str(s_odisha)

\* the keys the path rewrites
PathKeys(path) == IF path = "geo" THEN {geo_alias_key} ELSE mapping_keys

\* C9: a string whose lower-cased, trimmed form is not an alias-table key is
\* returned exactly as that form; only a whole-value match is rewritten, so a
\* name that contains an alias is not.  (The normaliser is an operator of its
\* argument alone: the same raw value always gives the same key.)
C9_UnknownPassThrough ==
    (Normalized /\ IsStr(normRaw) /\ normBase \notin PathKeys(normPath)) =>
        /\ normOut = Str(normBase)
        /\ normOut = Str(str_strip(str_lower(normRaw.s)))

\* C9 witness: a padded, upper-cased name that contains the alias "orissa"
\* came out of the tabular loader lower-cased and trimmed, not rewritten.
C9_Witness ==
    /\ normStage = "once"
    /\ normPath = "tab"
    /\ normBase = s_west_orissa
    /\ Len(normRaw.s) > Len(normBase)
    /\ normRaw.s # normBase
    /\ normOut = Str(s_west_orissa)

-----------------------------------------------------------------------------
(* SpecLoad: one call of load_table_data on a fetched table *)

s_Orissa_padded == <<" ", "O", "r", "i", "s", "s", "a">>

\* the column lists of the fetched tables: the region column first, last, absent
Schemas ==
    { <<"States", "Years", "Transaction_amount">>,
      <<"Transaction_amount", "States">>,
      <<"Years", "Transaction_amount">> }

\* the cells a column may hold
CellsOf(column) ==
    CASE column = "States" -> { Str(s_Orissa_padded), Str(s_goa), None, SomeNumber }
      [] column = "Years" -> { Num(2023) }
      [] OTHER -> { Num(50), Num(100) }

RowsOf(schema) ==
    { row \in [1..Len(schema) -> UNION { CellsOf(schema[c]) : c \in 1..Len(schema) }] :
        \A c \in 1..Len(schema) : row[c] \in CellsOf(schema[c]) }

TablesOf(schema) ==
    { [columns |-> schema, rows |-> rows] :
        rows \in UNION { [1..n -> RowsOf(schema)] : n \in 0..MaxRows } }

\* what pd.read_sql may do: raise, or return a table
FetchOutcomes ==
    { [ok |-> FALSE, df |-> EmptyDF] }
    \cup { [ok |-> TRUE, df |-> df] : df \in UNION { TablesOf(s) : s \in Schemas } }

LoadInit ==
    /\ loadCreateOk \in BOOLEAN
    /\ loadFetched \in FetchOutcomes
    /\ loadStage = "input"
    /\ loadResult = [df |-> EmptyDF, error |-> FALSE, queried |-> FALSE, raised |-> FALSE]

LoadIdle ==
    /\ loadCreateOk = TRUE
    /\ loadFetched = [ok |-> FALSE, df |-> EmptyDF]
    /\ loadStage = "idle"
    /\ loadResult = [df |-> EmptyDF, error |-> FALSE, queried |-> FALSE, raised |-> FALSE]

\* load_table_data(table_name), the engine obtained as on line 69
LoadTable ==
    /\ loadStage = "input"
    /\ loadResult' = load_table_data(get_database_engine(loadCreateOk), loadFetched)
    /\ loadStage' = "done"
    /\ UNCHANGED <<loadCreateOk, loadFetched>>
    /\ UNCHANGED notLoadVars

LoadNext == LoadTable

-----------------------------------------------------------------------------
(* Claims about load_table_data (checked under SpecLoad) *)

\* the "States" column holds a number and no string: Series.str raises
NumericStates(df) ==
    /\ HasCol(df, "States")
    /\ \E r \in 1..Len(df.rows) : df.rows[r][ColIndex(df, "States")].kind = "num"
    /\ \A r \in 1..Len(df.rows) : df.rows[r][ColIndex(df, "States")].kind # "str"

LoadFails ==
    \/ ~loadCreateOk
    \/ ~loadFetched.ok
    \/ NumericStates(loadFetched.df)

\* C2: load_table_data never propagates a failure: with no engine, or when the
\* query or the normalisation raises, it returns the table with zero rows and
\* no columns.
C2_FailureGivesEmptyTable ==
    loadStage = "done" =>
        /\ ~loadResult.raised
        /\ LoadFails => (loadResult.df.columns = <<>> /\ loadResult.df.rows = <<>>)

\* C2 witness: the engine exists, the query raised, and the empty table came
\* back with the error notice.
C2_Witness ==
    /\ loadStage = "done"
    /\ loadCreateOk
    /\ ~loadFetched.ok
    /\ loadResult.queried
    /\ loadResult.error
    /\ loadResult.df = EmptyDF

\* the canonical key of a fetched region cell
CanonicalCell(v) ==
    IF ~IsStr(v) THEN NaN
    ELSE LET t == str_strip(str_lower(v.s))
         IN  IF t = s_orissa THEN Str(s_odisha)
             ELSE IF t = s_andaman_and_nicobar THEN Str(s_andaman_nicobar_islands)
             ELSE IF t = s_dadra_and THEN Str(s_dadra_amp)
             ELSE Str(t)

\* C10: on success only the region column changes: "States" becomes "State"
\* and holds the canonical keys, every other column and every row (count and
\* order) is as fetched; a table without "States" is returned unchanged.
C10_OnlyRegionColumnChanges ==
    (loadStage = "done" /\ ~LoadFails) =>
        LET in == loadFetched.df
            out == loadResult.df
        IN  IF ~HasCol(in, "States") THEN out = in
            ELSE /\ Len(out.columns) = Len(in.columns)
                 /\ Len(out.rows) = Len(in.rows)
                 /\ \A c \in 1..Len(in.columns) :
                       out.columns[c] = IF in.columns[c] = "States" THEN "State"
                                        ELSE in.columns[c]
                 /\ \A r \in 1..Len(in.rows) : \A c \in 1..Len(in.columns) :
                       out.rows[r][c] = IF in.columns[c] = "States"
                                        THEN CanonicalCell(in.rows[r][c])
                                        ELSE in.rows[r][c]

\* C10 witness: a fetched table of two rows, one region missing and one
\* spelled " Orissa", came back with both rows, the region column renamed
\* and canonical.
C10_Witness ==
    /\ loadStage = "done"
    /\ loadCreateOk
    /\ loadFetched.ok
    /\ loadFetched.df.columns = <<"Transaction_amount", "States">>
    /\ Len(loadFetched.df.rows) = 2
    /\ loadFetched.df.rows[1][2] = None
    /\ loadFetched.df.rows[2][2] = Str(s_Orissa_padded)
    /\ loadResult.df.columns = <<"Transaction_amount", "State">>
    /\ Len(loadResult.df.rows) = 2
    /\ loadResult.df.rows[2][2] = Str(s_odisha)

-----------------------------------------------------------------------------
(* Aggregation: the pandas operations of the script *)

\* the characters of the model in code-point order
AsciiOrder == <<"\t", "\n", " ", "&">> \o UpperChars \o LowerChars
CharOrd(c) == CHOOSE i \in 1..Len(AsciiOrder) : AsciiOrder[i] = c

RECURSIVE StrLess(_, _)
StrLess(a, b) ==
    IF b = <<>> THEN FALSE
    ELSE IF a = <<>> THEN TRUE
    ELSE IF Head(a) = Head(b) THEN StrLess(Tail(a), Tail(b))
    ELSE CharOrd(Head(a)) < CharOrd(Head(b))

\* the order of float values: -inf < finite < inf
FloatLess(a, b) ==
    CASE a.kind = "-inf" -> b.kind # "-inf"
      [] a.kind = "inf" -> FALSE
      [] OTHER -> \/ b.kind = "inf"
                  \/ b.kind = "num" /\ a.n * b.d < b.n * a.d

\* the order groupby and sorted() put keys in
KeyLess(a, b) ==
    IF IsStr(a) /\ IsStr(b) THEN StrLess(a.s, b.s) ELSE FloatLess(a, b)

RECURSIVE SortedKeys(_)
SortedKeys(S) ==
    IF S = {} THEN <<>>
    ELSE LET m == CHOOSE x \in S : \A y \in S \ {x} : KeyLess(x, y)
         IN  <<m>> \o SortedKeys(S \ {m})

\* sorted(df[c].unique()), lines 307, 310
sorted_unique(df, c) == SortedKeys({ Column(df, c)[r] : r \in 1..Len(df.rows) })

\* the rows whose cell in column i equals v, for every (i, v) of conds, in order
RECURSIVE SelectRows(_, _, _)
SelectRows(rows, conds, r) ==
    IF r > Len(rows) THEN <<>>
    ELSE (IF \A cond \in conds : rows[r][cond[1]] = cond[2] THEN <<rows[r]>> ELSE <<>>)
         \o SelectRows(rows, conds, r + 1)

\* df[(df["Years"] == y) & (df["Quarter"] == q)], lines 313-316
filter_period(df, y, q) ==
    [columns |-> df.columns,
     rows |-> SelectRows(df.rows,
                         { <<ColIndex(df, "Years"), y>>, <<ColIndex(df, "Quarter"), q>> }, 1)]

\* Series.sum() of integer cells; missing cells are skipped
RECURSIVE SumCells(_)
SumCells(cells) ==
    IF cells = <<>> THEN 0
    ELSE (IF Head(cells).kind = "num" THEN Head(cells).n ELSE 0) + SumCells(Tail(cells))

\* the rows of a group, in order
GroupRows(df, key, k) == SelectRows(df.rows, { <<ColIndex(df, key), k>> }, 1)

\* the group keys: the distinct values that are not missing, sorted
GroupKeys(df, key) ==
    SortedKeys({ v \in { Column(df, key)[r] : r \in 1..Len(df.rows) } : ~IsMissing(v) })

\* df.groupby(key)[measures].sum().reset_index(): one row per key, sorted by
\* key; raises KeyError when a column is not there (lines 243-246, 321, 496)
groupby_sum(df, key, measures) ==
    IF ~HasCol(df, key) \/ \E m \in 1..Len(measures) : ~HasCol(df, measures[m])
    THEN [raised |-> TRUE, df |-> EmptyDF]
    ELSE LET keys == GroupKeys(df, key)
         IN  [raised |-> FALSE,
              df |-> [columns |-> <<key>> \o measures,
                      rows |-> [g \in 1..Len(keys) |->
                                  <<keys[g]>> \o
                                  [m \in 1..Len(measures) |->
                                     Num(SumCells([r \in 1..Len(GroupRows(df, key, keys[g])) |->
                                        GroupRows(df, key, keys[g])[r][ColIndex(df, measures[m])]]))]]]]

\* numpy / pandas float division of integers: no exception, inf or nan on zero
FloatDiv(a, b) ==
    IF b = 0 THEN (IF a = 0 THEN NaN ELSE IF a > 0 THEN Inf ELSE NegInf)
    ELSE Ratio(a, b)

\* Series.fillna(0)
fillna0(v) == IF v.kind = "nan" THEN Num(0) ELSE v

\* Series.mean() of finite floats
RECURSIVE SumRatios(_)
SumRatios(cells) ==
    IF cells = <<>> THEN Ratio(0, 1)
    ELSE LET rest == SumRatios(Tail(cells))
         IN  Ratio(Head(cells).n * rest.d + rest.n * Head(cells).d, Head(cells).d * rest.d)

MeanRatios(cells) ==
    LET total == SumRatios(cells) IN Ratio(total.n, total.d * Len(cells))

\* the constant of every top-N of the script
TopN == 10

\* the selection DataFrame.nlargest(n, col) makes when n is less than the
\* number of rows: the n rows with the largest values, descending, the first
\* of equal values first (keep="first"), missing values last
RECURSIVE LargestFirst(_, _, _)
LargestFirst(vals, remaining, n) ==
    IF n = 0 \/ remaining = {} THEN <<>>
    ELSE LET live == { i \in remaining : vals[i].kind # "nan" }
             pool == IF live # {} THEN live ELSE remaining
             best == CHOOSE i \in pool : \A j \in pool \ {i} :
                        IF live = {} THEN i < j
                        ELSE \/ FloatLess(vals[j], vals[i])
                             \/ ~FloatLess(vals[i], vals[j]) /\ i < j
         IN  <<best>> \o LargestFirst(vals, remaining \ {best}, n - 1)

nlargest_select(df, n, col) ==
    LET order == LargestFirst(Column(df, col), 1..Len(df.rows), n)
    IN  [columns |-> df.columns, rows |-> [i \in 1..Len(order) |-> df.rows[order[i]]]]

\* the orders sort_values(ascending=False) can put the rows in: descending,
\* missing values last in their original order.  The default kind="quicksort"
\* is not a stable sort, so rows with equal values come in whatever order
\* the sort of the numpy build leaves them.
RECURSIVE descending_orders(_, _)
descending_orders(vals, remaining) ==
    IF remaining = {} THEN { <<>> }
    ELSE LET live == { i \in remaining : vals[i].kind # "nan" }
             tops == IF live = {}
                     THEN { i \in remaining : \A j \in remaining : i <= j }
                     ELSE { i \in live : \A j \in live : ~FloatLess(vals[i], vals[j]) }
         IN  UNION { { <<i>> \o rest : rest \in descending_orders(vals, remaining \ {i}) } :
                     i \in tops }

\* df.sort_values(by=col, ascending=False), lines 386, 404, 423: every table
\* the call can return
sort_values_desc(df, col) ==
    { [columns |-> df.columns, rows |-> [i \in 1..Len(order) |-> df.rows[order[i]]]] :
        order \in descending_orders(Column(df, col), 1..Len(df.rows)) }

\* a variant of head that does not truncate
head_all(df, n) == df

\* df.head(n), lines 387, 405, 424
head(df, n) ==
    [columns |-> df.columns,
     rows |-> [i \in 1..(IF n < Len(df.rows) THEN n ELSE Len(df.rows)) |-> df.rows[i]]]

\* DataFrame.nlargest(n, col) and Series.nlargest(n), lines 329, 348, 471,
\* 505, 509, 547, 557: every table the call can return.  pandas selects the n
\* largest, the first of equal values first, only when n is less than the
\* number of rows; otherwise it returns sort_values(ascending=False).head(n)
nlargest(df, n, col) ==
    IF n >= Len(df.rows)
    THEN { head(sorted, n) : sorted \in sort_values_desc(df, col) }
    ELSE { nlargest_select(df, n, col) }

-----------------------------------------------------------------------------
(* The derived ratio measures *)

\* line 347: per state, Transaction_amount.sum() / Transaction_count.sum().
\* Without a group (every State missing) groupby(...).apply returns an empty
\* DataFrame instead of a Series, and reset_index(name=...) raises TypeError.
avg_val(filtered) ==
    LET sums == groupby_sum(filtered, "State", <<"Transaction_amount", "Transaction_count">>).df
    IN  IF sums.rows = <<>> THEN [raised |-> TRUE, df |-> EmptyDF]
        ELSE [raised |-> FALSE,
              df |-> [columns |-> <<"State", "Avg_Value">>,
                      rows |-> [g \in 1..Len(sums.rows) |->
                                  <<sums.rows[g][1],
                                    FloatDiv(sums.rows[g][2].n, sums.rows[g][3].n)>>]]]

\* line 470 and the mean of line 471: per row Insurance_amount /
\* (Insurance_count + 1), then the mean per state
avg_policy_means(ins) ==
    LET ai == ColIndex(ins, "Insurance_amount")
        ci == ColIndex(ins, "Insurance_count")
        keys == GroupKeys(ins, "State")
        PerRow(row) == FloatDiv(row[ai].n, row[ci].n + 1)
    IN  [columns |-> <<"State", "Avg_Policy_Value">>,
         rows |-> [g \in 1..Len(keys) |->
                     <<keys[g],
                       MeanRatios([r \in 1..Len(GroupRows(ins, "State", keys[g])) |->
                          PerRow(GroupRows(ins, "State", keys[g])[r])])>>]]

\* lines 470-471: the ten largest of the means, in every order the call can
\* return them
avg_policy(ins) == nlargest(avg_policy_means(ins), TopN, "Avg_Policy_Value")

\* lines 496, 504: Transaction_amount / Transaction_count of the state sums,
\* missing values replaced by 0
growth_score(exp) ==
    LET sums == groupby_sum(exp, "State", <<"Transaction_amount", "Transaction_count">>).df
    IN  [columns |-> <<"State", "Growth_Score">>,
         rows |-> [g \in 1..Len(sums.rows) |->
                     <<sums.rows[g][1],
                       fillna0(FloatDiv(sums.rows[g][2].n, sums.rows[g][3].n))>>]]

\* lines 538, 546: AppOpens / (RegisteredUsers + 1) of the state sums
engagement_rate(user) ==
    LET sums == groupby_sum(user, "State", <<"RegisteredUsers", "AppOpens">>).df
    IN  [columns |-> <<"State", "Engagement_Rate">>,
         rows |-> [g \in 1..Len(sums.rows) |->
                     <<sums.rows[g][1], FloatDiv(sums.rows[g][3].n, sums.rows[g][2].n + 1)>>]]

-----------------------------------------------------------------------------
(* Chart builders, lines 124-176 *)

NoChart(warning) == [kind |-> "none", chart |-> "", warning |-> warning, x |-> <<>>, y |-> <<>>]
Fig(chart, x, y) == [kind |-> "fig", chart |-> chart, warning |-> "", x |-> x, y |-> y]
\* the builder raised: a bound column is not in the table
ChartRaised == [kind |-> "raised", chart |-> "", warning |-> "", x |-> <<>>, y |-> <<>>]

\* lines 124-155
create_choropleth_map(df, value_col) ==
    IF df_empty(df) THEN NoChart("No data available for the map.")
    ELSE IF ~HasCol(df, "State") \/ ~HasCol(df, value_col) THEN ChartRaised
    ELSE Fig("choropleth", Column(df, "State"), Column(df, value_col))

\* lines 157-165
create_pie_chart(df, values_col, names_col) ==
    IF df_empty(df) THEN NoChart("No data available for the chart.")
    ELSE IF ~HasCol(df, values_col) \/ ~HasCol(df, names_col) THEN ChartRaised
    ELSE Fig("pie", Column(df, names_col), Column(df, values_col))

\* lines 167-176
create_bar_chart(df, x_col, y_col) ==
    IF df_empty(df) THEN NoChart("No data available for the chart.")
    ELSE IF ~HasCol(df, x_col) \/ ~HasCol(df, y_col) THEN ChartRaised
    ELSE Fig("bar", Column(df, x_col), Column(df, y_col))

-----------------------------------------------------------------------------
(* SpecAgg: the aggregation, the ratio measures and the chart builders *)

\* the column lists of the loaded tables the measures are computed from
AggSchemas ==
    { <<"State", "Transaction_amount", "Transaction_count">>,
      <<"State", "Insurance_amount", "Insurance_count">>,
      <<"State", "RegisteredUsers", "AppOpens">> }

\* amounts in the first set, counts in the second
AmountColumns == {"Transaction_amount", "Insurance_amount", "AppOpens"}

AggCellsOf(column) ==
    CASE column = "State" -> { Str(s_goa), Str(s_odisha), NaN }
      [] column \in AmountColumns -> { Num(0), Num(100) }
      [] OTHER -> { Num(0), Num(2) }

AggRowsOf(schema) ==
    { row \in [1..Len(schema) -> UNION { AggCellsOf(schema[c]) : c \in 1..Len(schema) }] :
        \A c \in 1..Len(schema) : row[c] \in AggCellsOf(schema[c]) }

\* the loaded tables: the table of a failed load, and tables of up to
\* MaxAggRows rows
AggTables ==
    { EmptyDF }
    \cup UNION { { [columns |-> s, rows |-> rows] :
                     rows \in UNION { [1..n -> AggRowsOf(s)] : n \in 0..MaxAggRows } } :
                 s \in AggSchemas }

\* the columns a chart may be bound to: the label column and the value column
LabelColumns == { "State", "Brands" }
ValueColumns == { "Transaction_amount", "Insurance_amount", "RegisteredUsers", "Avg_Value" }

NoTable == EmptyDF

AggInit ==
    /\ aggIn \in AggTables
    /\ aggStage = "input"
    /\ aggOp = "none"
    /\ aggKey = ""
    /\ aggMeasure = ""
    /\ aggRaised = FALSE
    /\ aggTable = NoTable
    /\ aggChartIn = NoTable
    /\ aggBind = <<"", "">>
    /\ aggChart = NoChart("")

AggIdle ==
    /\ aggIn = NoTable
    /\ aggStage = "idle"
    /\ aggOp = "none"
    /\ aggKey = ""
    /\ aggMeasure = ""
    /\ aggRaised = FALSE
    /\ aggTable = NoTable
    /\ aggChartIn = NoTable
    /\ aggBind = <<"", "">>
    /\ aggChart = NoChart("")

\* df.groupby("State")[measure].sum().reset_index()
GroupBy ==
    /\ aggStage = "input"
    /\ \E measure \in {"Transaction_amount", "Insurance_amount", "RegisteredUsers"} :
          LET g == groupby_sum(aggIn, "State", <<measure>>)
          IN  /\ aggRaised' = g.raised
              /\ aggTable' = g.df
              /\ aggMeasure' = measure
    /\ aggKey' = "State"
    /\ aggOp' = "groupby_sum"
    /\ aggStage' = "grouped"
    /\ UNCHANGED <<aggIn, aggChartIn, aggBind, aggChart>>
    /\ UNCHANGED notAggVars

\* the script computes a ratio measure from a table that is not empty and has
\* the columns of the measure
RatioInput(columns) ==
    /\ aggStage = "input"
    /\ ~df_empty(aggIn)
    /\ \A c \in columns : HasCol(aggIn, c)

\* line 347
AvgVal ==
    /\ RatioInput({"State", "Transaction_amount", "Transaction_count"})
    /\ aggRaised' = avg_val(aggIn).raised
    /\ aggTable' = avg_val(aggIn).df
    /\ aggOp' = "avg_val"
    /\ aggStage' = "ratio"
    /\ UNCHANGED <<aggIn, aggKey, aggMeasure, aggChartIn, aggBind, aggChart>>
    /\ UNCHANGED notAggVars

\* lines 470-471
AvgPolicy ==
    /\ RatioInput({"State", "Insurance_amount", "Insurance_count"})
    /\ aggTable' \in avg_policy(aggIn)
    /\ aggOp' = "avg_policy"
    /\ aggStage' = "ratio"
    /\ UNCHANGED <<aggIn, aggKey, aggMeasure, aggRaised, aggChartIn, aggBind, aggChart>>
    /\ UNCHANGED notAggVars

\* lines 496, 504
GrowthScore ==
    /\ RatioInput({"State", "Transaction_amount", "Transaction_count"})
    /\ aggTable' = growth_score(aggIn)
    /\ aggOp' = "growth_score"
    /\ aggStage' = "ratio"
    /\ UNCHANGED <<aggIn, aggKey, aggMeasure, aggRaised, aggChartIn, aggBind, aggChart>>
    /\ UNCHANGED notAggVars

\* lines 538, 546
EngagementRate ==
    /\ RatioInput({"State", "RegisteredUsers", "AppOpens"})
    /\ aggTable' = engagement_rate(aggIn)
    /\ aggOp' = "engagement_rate"
    /\ aggStage' = "ratio"
    /\ UNCHANGED <<aggIn, aggKey, aggMeasure, aggRaised, aggChartIn, aggBind, aggChart>>
    /\ UNCHANGED notAggVars

\* a chart builder is given the loaded table, or the table derived from it
ChartInput == IF aggStage = "input" THEN aggIn ELSE aggTable

ChartReady ==
    /\ aggStage \in {"input", "grouped", "ratio"}
    /\ ~aggRaised

\* create_choropleth_map(df, value_col, ...): the locations are df["State"]
BuildChoropleth ==
    /\ ChartReady
    /\ \E value_col \in ValueColumns :
          /\ aggBind' = <<"State", value_col>>
          /\ aggChart' = create_choropleth_map(ChartInput, value_col)
    /\ aggChartIn' = ChartInput
    /\ aggOp' = "create_choropleth_map"
    /\ aggStage' = "charted"
    /\ UNCHANGED <<aggIn, aggKey, aggMeasure, aggRaised, aggTable>>
    /\ UNCHANGED notAggVars

\* create_pie_chart(df, values_col, names_col, title)
BuildPie ==
    /\ ChartReady
    /\ \E values_col \in ValueColumns, names_col \in LabelColumns :
          /\ aggBind' = <<names_col, values_col>>
          /\ aggChart' = create_pie_chart(ChartInput, values_col, names_col)
    /\ aggChartIn' = ChartInput
    /\ aggOp' = "create_pie_chart"
    /\ aggStage' = "charted"
    /\ UNCHANGED <<aggIn, aggKey, aggMeasure, aggRaised, aggTable>>
    /\ UNCHANGED notAggVars

\* create_bar_chart(df, x_col, y_col, title)
BuildBar ==
    /\ ChartReady
    /\ \E x_col \in LabelColumns, y_col \in ValueColumns :
          /\ aggBind' = <<x_col, y_col>>
          /\ aggChart' = create_bar_chart(ChartInput, x_col, y_col)
    /\ aggChartIn' = ChartInput
    /\ aggOp' = "create_bar_chart"
    /\ aggStage' = "charted"
    /\ UNCHANGED <<aggIn, aggKey, aggMeasure, aggRaised, aggTable>>
    /\ UNCHANGED notAggVars

AggNext ==
    \/ GroupBy
    \/ AvgVal
    \/ AvgPolicy
    \/ GrowthScore
    \/ EngagementRate
    \/ BuildChoropleth
    \/ BuildPie
    \/ BuildBar

-----------------------------------------------------------------------------
(* Claims about the ratio measures and the chart builders (under SpecAgg) *)

\* C5: every derived ratio measure (average transaction value, average policy
\* value, growth score, engagement rate) divides by a guarded denominator, so
\* every value it yields is finite, also for a group whose count is zero.
C5_RatiosAreFinite ==
    aggStage = "ratio" =>
        \A r \in 1..Len(aggTable.rows) : aggTable.rows[r][2].kind = "num"

\* the columns the builder reads are columns of the table
BoundColumns ==
    /\ HasCol(aggChartIn, aggBind[2])
    /\ HasCol(aggChartIn, IF aggOp = "create_choropleth_map" THEN "State" ELSE aggBind[1])

ChartKindOf(op) ==
    CASE op = "create_choropleth_map" -> "choropleth"
      [] op = "create_pie_chart" -> "pie"
      [] OTHER -> "bar"

\* what the builders do: the "no data" result (None, with a notice) and no
\* chart for an empty table; a chart of every row for a table that is not
\* empty and has the columns the chart is bound to
BuildersReportNoData ==
    aggStage = "charted" =>
       /\ df_empty(aggChartIn) =>
             (aggChart.kind = "none" /\ aggChart.warning # "" /\ aggChart.x = <<>>)
       /\ (~df_empty(aggChartIn) /\ BoundColumns) =>
             (aggChart.kind = "fig" /\ aggChart.chart = ChartKindOf(aggOp)
              /\ Len(aggChart.x) = Len(aggChartIn.rows))

\* grouping an empty table that has the key and the summed column gives an
\* empty table
GroupedEmptyWithColumnsIsEmpty ==
    (aggKey # "" /\ df_empty(aggIn) /\ HasCol(aggIn, aggKey) /\ HasCol(aggIn, aggMeasure)) =>
       (~aggRaised /\ df_empty(aggTable) /\ aggTable.rows = <<>>)

\* C6: each chart builder returns the "no data" result (None, with a notice)
\* for an empty table and builds no chart, and returns a chart for a table
\* that is not empty.  Grouping an empty table, the table of a failed load
\* (no rows, no columns) included, by a group key gives an empty table, for
\* which the builder reports "no data".
C6_EmptyTableGivesNoChart ==
    /\ BuildersReportNoData
    /\ (aggKey # "" /\ df_empty(aggIn)) =>
          (~aggRaised /\ df_empty(aggTable) /\ aggTable.rows = <<>>)

-----------------------------------------------------------------------------
(* Claims about the grouped sums (checked under SpecAgg) *)

\* the sum of column ci over the rows of the index set R
RECURSIVE MeasureTotal(_, _, _)
MeasureTotal(rows, ci, R) ==
    IF R = {} THEN 0
    ELSE LET r == CHOOSE x \in R : TRUE
         IN  rows[r][ci].n + MeasureTotal(rows, ci, R \ {r})

\* the rows of the input whose key cell is k
RowsOfKey(k) ==
    { r \in 1..Len(aggIn.rows) : aggIn.rows[r][ColIndex(aggIn, aggKey)] = k }

\* the grouped table has one row per value of Keys, holding the sum of that
\* value's input rows, and its total is the total of the input
GroupedExactly(Keys) ==
    LET mi == ColIndex(aggIn, aggMeasure)
    IN  /\ Len(aggTable.rows) = Cardinality(Keys)
        /\ \A k \in Keys :
              /\ Cardinality({ g \in 1..Len(aggTable.rows) : aggTable.rows[g][1] = k }) = 1
              /\ \A g \in 1..Len(aggTable.rows) :
                    aggTable.rows[g][1] = k =>
                       aggTable.rows[g][2] = Num(MeasureTotal(aggIn.rows, mi, RowsOfKey(k)))
        /\ MeasureTotal(aggTable.rows, 2, 1..Len(aggTable.rows))
              = MeasureTotal(aggIn.rows, mi, 1..Len(aggIn.rows))

\* C11: grouping a table by a key and summing a measure gives exactly one row
\* per distinct key value of the input, each holding the sum of that value's
\* rows, so the total of the summed measure is the total of the input measure.
C11_GroupSumPreservesTotal ==
    (aggStage = "grouped" /\ ~aggRaised) =>
        GroupedExactly({ aggIn.rows[r][ColIndex(aggIn, aggKey)] : r \in 1..Len(aggIn.rows) })

\* the same for a table in which no row lacks its key: the case in which the
\* grouped sums do keep the total
GroupSumOfKeyedRows ==
    (/\ aggStage = "grouped"
     /\ ~aggRaised
     /\ \A r \in 1..Len(aggIn.rows) : ~IsMissing(aggIn.rows[r][ColIndex(aggIn, aggKey)])) =>
        GroupedExactly({ aggIn.rows[r][ColIndex(aggIn, aggKey)] : r \in 1..Len(aggIn.rows) })

-----------------------------------------------------------------------------
(* SpecTop: the top-N selections over a table of group sums *)

\* the tables the selections are taken from, by the columns of the grouped
\* sums: state_summary (line 321), brand_data (line 384), district_users
\* (line 557)
TopSchemas ==
    { <<"State", "Transaction_amount">>,
      <<"Brands", "Transaction_count">>,
      <<"District", "RegisteredUsers">> }

\* the key of the g-th group: groupby leaves the groups in key order
TopKey(g) == Str(<<LowerChars[g]>>)

\* sums that differ from group to group, in no particular order
TopBase(g) == ((g * 5) % 17) * 10

\* the grouped tables: up to MaxGroups groups with different sums, of which
\* one or two groups are given the sum of some group of the table
TopTables ==
    UNION { { [columns |-> schema,
               rows |-> [g \in 1..G |->
                           <<TopKey(g), Num(IF g \in T THEN TopBase(v) ELSE TopBase(g))>>]] :
                 schema \in TopSchemas,
                 T \in { {a, b} : a, b \in 1..G },
                 v \in 1..G } :
            G \in 1..MaxGroups }
    \cup { [columns |-> schema, rows |-> <<>>] : schema \in TopSchemas }

TopInit ==
    /\ topIn \in TopTables
    /\ topStage = "input"
    /\ topOp = "none"
    /\ topOut = NoTable

TopIdle ==
    /\ topIn = NoTable
    /\ topStage = "idle"
    /\ topOp = "none"
    /\ topOut = NoTable

\* line 329: state_summary.nlargest(10, "Transaction_amount")
NLargest ==
    /\ topStage = "input"
    /\ topIn.columns = <<"State", "Transaction_amount">>
    /\ topOut' \in nlargest(topIn, TopN, "Transaction_amount")
    /\ topOp' = "nlargest"
    /\ topStage' = "done"
    /\ UNCHANGED topIn
    /\ UNCHANGED notTopVars

\* lines 383-388: .sort_values(by="Transaction_count", ascending=False).head(10)
SortHead ==
    /\ topStage = "input"
    /\ topIn.columns = <<"Brands", "Transaction_count">>
    /\ \E sorted \in sort_values_desc(topIn, "Transaction_count") :
          topOut' = head(sorted, TopN)
    /\ topOp' = "sort_values_head"
    /\ topStage' = "done"
    /\ UNCHANGED topIn
    /\ UNCHANGED notTopVars

\* line 557: the Series form, ...["RegisteredUsers"].sum().nlargest(10)
\* .reset_index(): the same selection on the column of sums
SeriesNLargest ==
    /\ topStage = "input"
    /\ topIn.columns = <<"District", "RegisteredUsers">>
    /\ topOut' \in nlargest(topIn, TopN, "RegisteredUsers")
    /\ topOp' = "series_nlargest"
    /\ topStage' = "done"
    /\ UNCHANGED topIn
    /\ UNCHANGED notTopVars

TopNext ==
    \/ NLargest
    \/ SortHead
    \/ SeriesNLargest

-----------------------------------------------------------------------------
(* Claims about the top-N selections (checked under SpecTop) *)

\* the position in the grouped table of the i-th row returned
OriginalRow(i) == CHOOSE g \in 1..Len(topIn.rows) : topIn.rows[g] = topOut.rows[i]

\* the rows of the grouped table that were not returned
Omitted ==
    { g \in 1..Len(topIn.rows) : \A i \in 1..Len(topOut.rows) : topOut.rows[i] # topIn.rows[g] }

\* C12: a top-N selection over G groups returns min(N, G) rows, each a
\* different group of the table, in descending order of the measure, and no
\* omitted group has a larger measure than a returned one; when N is at least
\* G every group is returned.
C12_TopNSelection ==
    topStage = "done" =>
        LET G == Len(topIn.rows)
            K == Len(topOut.rows)
        IN  /\ K = (IF TopN < G THEN TopN ELSE G)
            /\ topOut.columns = topIn.columns
            /\ \A i \in 1..K : \E g \in 1..G : topIn.rows[g] = topOut.rows[i]
            /\ \A i, j \in 1..K : i # j => topOut.rows[i][1] # topOut.rows[j][1]
            /\ \A i, j \in 1..K : i < j => ~FloatLess(topOut.rows[i][2], topOut.rows[j][2])
            /\ \A g \in Omitted, i \in 1..K : ~FloatLess(topOut.rows[i][2], topIn.rows[g][2])
            /\ TopN >= G => Omitted = {}

\* C12 witness: a selection over more than N groups cut the table down to N
\* rows, and the group left out has a smaller sum than every group returned.
C12_Witness ==
    /\ topStage = "done"
    /\ topOp = "sort_values_head"
    /\ Len(topIn.rows) > TopN
    /\ Len(topOut.rows) = TopN
    /\ \A g \in Omitted, i \in 1..Len(topOut.rows) :
          FloatLess(topIn.rows[g][2], topOut.rows[i][2])

\* C13: in every top-N selection, groups with equal values of the measure are
\* returned in their original row order, and of the equal groups at the
\* cut-off the ones that came first in the original order are kept.
C13_TiesKeepOriginalOrder ==
    topStage = "done" =>
        /\ \A i, j \in 1..Len(topOut.rows) :
              (i < j /\ topOut.rows[i][2] = topOut.rows[j][2]) =>
                 OriginalRow(i) < OriginalRow(j)
        /\ \A g \in Omitted, i \in 1..Len(topOut.rows) :
              topOut.rows[i][2] = topIn.rows[g][2] => OriginalRow(i) < g

\* the same for the selections nlargest takes from more than N rows, where
\* pandas keeps the first of equal values
NLargestKeepsFirst ==
    (topStage = "done" /\ topOp # "sort_values_head" /\ Len(topIn.rows) > TopN) =>
        /\ \A i, j \in 1..Len(topOut.rows) :
              (i < j /\ topOut.rows[i][2] = topOut.rows[j][2]) =>
                 OriginalRow(i) < OriginalRow(j)
        /\ \A g \in Omitted, i \in 1..Len(topOut.rows) :
              topOut.rows[i][2] = topIn.rows[g][2] => OriginalRow(i) < g

-----------------------------------------------------------------------------
(* The database and the GeoJSON file (the environment of the process) *)

\* lines 103-113: the (key, table name) pairs of load_all_data, in order
tables ==
    << <<"agg_transaction", "aggregated_transaction">>,
       <<"agg_insurance", "aggregated_insurance">>,
       <<"agg_user", "aggregated_user">>,
       <<"map_transaction", "map_transaction">>,
       <<"map_insurance", "map_insurance">>,
       <<"map_user", "map_user">>,
       <<"top_transaction", "top_transaction">>,
       <<"top_insurance", "top_insurance">>,
       <<"top_user", "top_user">> >>

TableNames == { tables[i][2] : i \in 1..Len(tables) }
DataKeys == { tables[i][1] : i \in 1..Len(tables) }

s_Goa == <<"G", "o", "a">>
s_Orissa == <<"O", "r", "i", "s", "s", "a">>
s_recharge == <<"r", "e", "c", "h", "a", "r", "g", "e">>
s_merchant == <<"m", "e", "r", "c", "h", "a", "n", "t">>
s_xiaomi == <<"x", "i", "a", "o", "m", "i">>
s_samsung == <<"s", "a", "m", "s", "u", "n", "g">>
s_panaji == <<"p", "a", "n", "a", "j", "i">>
s_puri == <<"p", "u", "r", "i">>

\* the columns of each table, as the script reads them
SourceColumns(table_name) ==
    CASE table_name = "aggregated_transaction" ->
            <<"States", "Years", "Quarter", "Transaction_type",
              "Transaction_count", "Transaction_amount">>
      [] table_name = "aggregated_insurance" ->
            <<"States", "Years", "Quarter", "Insurance_count", "Insurance_amount">>
      [] table_name = "aggregated_user" ->
            <<"States", "Years", "Quarter", "Brands", "Transaction_count">>
      [] table_name = "map_transaction" ->
            <<"States", "Years", "Quarter", "District",
              "Transaction_count", "Transaction_amount">>
      [] table_name = "map_user" ->
            <<"States", "Years", "Quarter", "District", "RegisteredUsers", "AppOpens">>
      [] table_name = "top_user" ->
            <<"States", "Years", "Quarter", "Registered_Users">>
      [] OTHER -> <<"States", "Years", "Quarter">>

\* the cell of row r in a column: Goa Q1, Orissa Q1, Goa Q2 of 2023
SourceCell(column, r) ==
    CASE column = "States" -> Str(<<s_Goa, s_Orissa, s_Goa>>[r])
      [] column = "Years" -> Num(2023)
      [] column = "Quarter" -> Num(<<1, 1, 2>>[r])
      [] column = "Transaction_type" -> Str(<<s_recharge, s_merchant, s_recharge>>[r])
      [] column = "Brands" -> Str(<<s_xiaomi, s_samsung, s_xiaomi>>[r])
      [] column = "District" -> Str(<<s_panaji, s_puri, s_panaji>>[r])
      [] column \in {"Transaction_amount", "Insurance_amount", "AppOpens"} ->
            Num(<<100, 50, 70>>[r])
      [] OTHER -> Num(<<2, 0, 1>>[r])

\* what SELECT * FROM table_name returns when the query succeeds
SourceTable(table_name, withRows) ==
    LET columns == SourceColumns(table_name)
    IN  [columns |-> columns,
         rows |-> IF withRows
                  THEN [r \in 1..3 |-> [c \in 1..Len(columns) |-> SourceCell(columns[c], r)]]
                  ELSE <<>>]

\* line 75: pd.read_sql raises when the database is down or the table is not
\* there
read_sql(table_name, up, missing, withRows) ==
    IF ~up \/ table_name \in missing
    THEN [ok |-> FALSE, df |-> EmptyDF]
    ELSE [ok |-> TRUE, df |-> SourceTable(table_name, withRows)]

\* lines 40-41: the file, when it can be read: one feature per state
geojson_file(ok) ==
    [ok |-> ok,
     features |-> IF ok THEN << Feature("object", TRUE, Str(s_Goa)),
                                Feature("object", TRUE, Str(s_Orissa)) >>
                  ELSE <<>>]

-----------------------------------------------------------------------------
(* Memoisation: st.cache_resource and st.cache_data *)

NotCached == [cached |-> FALSE]
Cached(value) == [cached |-> TRUE, value |-> value]

\* a variant of the decorators that never finds an entry
memoized_never(entry) == FALSE

\* lines 23, 36, 66, 100: the decorated function runs only when the cache
\* holds no entry for its arguments
memoized(entry) == entry.cached

\* the caches and counters of the process, threaded through the calls
ProcessState(engine, tcache, qcount, ecount) ==
    [engineCache |-> engine, tableCache |-> tcache,
     queryCount |-> qcount, engineCount |-> ecount]

\* line 69, under st.cache_resource
call_get_database_engine(p, createOk) ==
    IF memoized(p.engineCache) THEN p
    ELSE [p EXCEPT !.engineCache = Cached(get_database_engine(createOk)),
                   !.engineCount = @ + 1]

\* line 117: load_table_data(table_name), under st.cache_data
call_load_table_data(p, table_name, createOk, up, missing, withRows) ==
    IF memoized(p.tableCache[table_name]) THEN p
    ELSE LET p1 == call_get_database_engine(p, createOk)
             r == load_table_data(p1.engineCache.value,
                                  read_sql(table_name, up, missing, withRows))
         IN  [p1 EXCEPT !.tableCache[table_name] = Cached(r.df),
                        !.queryCount[table_name] = @ + (IF r.queried THEN 1 ELSE 0)]

\* the table name a key of the dictionary stands for
table_of(key) == tables[CHOOSE i \in 1..Len(tables) : tables[i][1] = key][2]

\* line 119: the dictionary load_all_data returns
data_of(p) == [key \in DataKeys |-> p.tableCache[table_of(key)].value]

\* Where streamlit may stop or rerun the script: at every call that hands
\* it an element.  It raises an exception that is no Exception, which lines
\* 29, 61 and 93 do not catch and which leaves the cached function before the
\* decorator stored a result.  Inside the loaders these calls are st.error
\* (lines 30, 62, 94) and the spinner the decorators of lines 23, 36, 66 and
\* 100 put around every call (none passes show_spinner=False): one element
\* when the call is entered, one when it has returned and its result is
\* stored.
\*
\* The process states a stop can leave behind in load_table_data(table_name),
\* called from the loop of load_all_data; lost: the work was done and its
\* result is not stored.
stopped_load_table_data(p, table_name, createOk, up, missing, withRows) ==
    LET p1 == call_get_database_engine(p, createOk)
        r == load_table_data(p1.engineCache.value,
                             read_sql(table_name, up, missing, withRows))
    IN  \* the spinners on entry: of load_table_data (lines 66, 117), and of
        \* get_database_engine (lines 23, 69)
        { [p |-> p, lost |-> FALSE] }
        \cup
        (IF memoized(p.tableCache[table_name]) THEN {}
         ELSE \* line 30: create_engine ran and raised; None is not stored
              (IF ~memoized(p.engineCache) /\ get_database_engine(createOk) = "none"
               THEN { [p |-> [p EXCEPT !.engineCount = @ + 1], lost |-> TRUE] }
               ELSE {})
              \cup
              \* the spinner of get_database_engine on return: the engine is stored
              { [p |-> p1, lost |-> FALSE] }
              \cup
              \* line 94: the query was issued and its result is not stored
              (IF r.error
               THEN { [p |-> [p1 EXCEPT !.queryCount[table_name] = @ + 1], lost |-> TRUE] }
               ELSE {})
              \cup
              \* the spinner of load_table_data on return: the table is stored,
              \* the dictionary of load_all_data is not
              { [p |-> call_load_table_data(p, table_name, createOk, up, missing, withRows),
                 lost |-> FALSE] })

\* the cache and the count of reads a stop can leave behind in
\* load_geojson_data, called on line 184
stopped_load_geojson_data(cache, count, file) ==
    \* the spinner on entry (line 36), and the one of load_all_data on return
    { [geoCache |-> cache, geoCount |-> count, lost |-> FALSE] }
    \cup
    (IF memoized(cache) THEN {}
     ELSE \* line 62: the file was opened and the result is not stored
          (IF load_geojson_data(file).error
           THEN { [geoCache |-> cache, geoCount |-> count + 1, lost |-> TRUE] }
           ELSE {})
          \cup
          \* the spinner on return: the result is stored
          { [geoCache |-> Cached(load_geojson_data(file)), geoCount |-> count + 1,
             lost |-> FALSE] })

-----------------------------------------------------------------------------
(* The render pass: the script from line 183 to its end *)

\* what a stretch of the script did: whether an exception left it, the
\* st.warning notices it showed, the charts it drew
StepOk == [raised |-> FALSE, warnings |-> {}, charts |-> 0]
StepRaise == [raised |-> TRUE, warnings |-> {}, charts |-> 0]
StepWarn(w) == [raised |-> FALSE, warnings |-> {w}, charts |-> 0]
StepChart == [raised |-> FALSE, warnings |-> {}, charts |-> 1]

\* a, then b unless a raised
Then(a, b) ==
    IF a.raised THEN a
    ELSE [raised |-> b.raised, warnings |-> a.warnings \cup b.warnings,
          charts |-> a.charts + b.charts]

\* df[c] for every c of columns: KeyError when one is not a column
read_columns(df, columns) ==
    IF \A c \in columns : HasCol(df, c) THEN StepOk ELSE StepRaise

\* st.plotly_chart(fig) on what a chart builder returned: the builder's notice
\* was shown; None is no figure and plotly raises on it
plotly_chart(fig) ==
    CASE fig.kind = "fig" -> StepChart
      [] fig.kind = "none" -> Then(StepWarn(fig.warning), StepRaise)
      [] OTHER -> StepRaise

\* st.plotly_chart(create_bar_chart(top, x_col, y_col, ...)) on the table a
\* top-N selection returned: the builder reads the emptiness and the columns
\* of the table, which every order of its rows shares, so the step is one
plotly_bar_chart(outcomes, x_col, y_col) ==
    LET steps == { plotly_chart(create_bar_chart(top, x_col, y_col)) : top \in outcomes }
    IN  CHOOSE step \in steps : TRUE

\* lines 257-258: if fig: st.plotly_chart(fig)
plotly_chart_if(fig) ==
    CASE fig.kind = "fig" -> StepChart
      [] fig.kind = "none" -> StepWarn(fig.warning)
      [] OTHER -> StepRaise

\* px.line / px.bar / px.pie / px.scatter on a table, then st.plotly_chart
px_chart(df, columns) ==
    IF \A c \in columns : HasCol(df, c) THEN StepChart ELSE StepRaise

\* df[new] = df[src] / divisor (Amount_M, Users_K)
scaled_column(df, new, src, divisor) ==
    [columns |-> Append(df.columns, new),
     rows |-> [r \in 1..Len(df.rows) |->
                 Append(df.rows[r], Ratio(df.rows[r][ColIndex(df, src)].n, divisor))]]

\* df[df[c] == v]
filter_eq(df, c, v) ==
    [columns |-> df.columns, rows |-> SelectRows(df.rows, { <<ColIndex(df, c), v>> }, 1)]

\* Series.max() of a column that is not empty
column_max(df, c) ==
    LET s == sorted_unique(df, c) IN s[Len(s)]

\* st.selectbox(label, options): None without options, else the option the
\* user chose
selectbox(options, choice) ==
    IF options = <<>> THEN None ELSE options[((choice - 1) % Len(options)) + 1]

\* a table and the state sums of it charted as in every case study: the
\* choropleth of the scaled sum, then the bar chart of its ten largest
summary_charts(summary, measure, scaled) ==
    Then(plotly_chart(create_choropleth_map(summary, scaled)),
         plotly_bar_chart(nlargest(summary, TopN, measure), "State", scaled))

\* lines 194-279
dashboard_page(data) ==
    LET agg == data["agg_transaction"]
        Metric(df, c) == IF ~df_empty(df) THEN read_columns(df, {c}) ELSE StepOk
        heatmap ==
            IF df_empty(agg) THEN StepOk
            ELSE Then(read_columns(agg, {"Years", "Quarter"}),
                      LET latest_year == column_max(agg, "Years")
                          latest_quarter ==
                              column_max(filter_eq(agg, "Years", latest_year), "Quarter")
                          g == groupby_sum(filter_period(agg, latest_year, latest_quarter),
                                           "State",
                                           <<"Transaction_amount", "Transaction_count">>)
                      IN  IF g.raised THEN StepRaise
                          ELSE plotly_chart_if(create_choropleth_map(
                                  scaled_column(g.df, "Amount_M", "Transaction_amount", 1000000),
                                  "Amount_M")))
        trend ==
            IF df_empty(agg) THEN StepOk
            ELSE px_chart(agg, {"Years", "Quarter", "Transaction_amount"})
    IN  Then(Metric(agg, "Transaction_count"),
        Then(Metric(agg, "Transaction_amount"),
        Then(Metric(data["top_user"], "Registered_Users"),
        Then(Metric(data["agg_insurance"], "Insurance_amount"),
        Then(heatmap, trend)))))

\* lines 301-349
transaction_dynamics(data, yc, qc) ==
    LET agg == data["agg_transaction"]
        selected_year == selectbox(sorted_unique(agg, "Years"), yc)
        selected_quarter ==
            selectbox(sorted_unique(filter_eq(agg, "Years", selected_year), "Quarter"), qc)
        filtered == filter_period(agg, selected_year, selected_quarter)
        g == groupby_sum(filtered, "State", <<"Transaction_amount">>)
        pay_type == groupby_sum(filtered, "Transaction_type", <<"Transaction_count">>)
    IN  Then(read_columns(agg, {"Years"}),
        Then(read_columns(agg, {"Quarter"}),
             IF df_empty(filtered) THEN StepWarn("No transaction data for selected period.")
             ELSE IF g.raised THEN StepRaise
             ELSE
        Then(summary_charts(scaled_column(g.df, "Amount_M", "Transaction_amount", 1000000),
                            "Transaction_amount", "Amount_M"),
        Then(IF pay_type.raised THEN StepRaise
             ELSE plotly_chart(create_pie_chart(pay_type.df, "Transaction_count",
                                                "Transaction_type")),
        Then(px_chart(agg, {"Years", "Transaction_amount"}),
        Then(read_columns(filtered, {"State", "Transaction_amount", "Transaction_count"}),
             IF avg_val(filtered).raised THEN StepRaise
             ELSE plotly_bar_chart(nlargest(avg_val(filtered).df, TopN, "Avg_Value"),
                                   "State", "Avg_Value")))))))

\* lines 356-435
device_usage(data, yc, qc) ==
    LET agg_user == data["agg_user"]
        map_user == data["map_user"]
        selected_year == selectbox(sorted_unique(agg_user, "Years"), yc)
        selected_quarter ==
            selectbox(sorted_unique(filter_eq(agg_user, "Years", selected_year), "Quarter"), qc)
        user_df == filter_period(agg_user, selected_year, selected_quarter)
        map_df == filter_period(map_user, selected_year, selected_quarter)
    IN  Then(read_columns(agg_user, {"Years"}),
        Then(read_columns(agg_user, {"Quarter"}),
        Then(read_columns(map_user, {"Years", "Quarter"}),
             IF df_empty(user_df) \/ df_empty(map_df)
             THEN StepWarn("No user data available for the selected period.")
             ELSE
        Then(px_chart(user_df, {"Brands", "Transaction_count"}),
        Then(px_chart(map_df, {"State", "AppOpens"}),
             px_chart(user_df, {"State", "Transaction_count"}))))))

\* lines 440-478
insurance_market(data, yc, qc) ==
    LET agg == data["agg_insurance"]
        year == selectbox(sorted_unique(agg, "Years"), yc)
        quarter == selectbox(sorted_unique(filter_eq(agg, "Years", year), "Quarter"), qc)
        ins == filter_period(agg, year, quarter)
        g == groupby_sum(ins, "State", <<"Insurance_amount">>)
    IN  Then(read_columns(agg, {"Years"}),
        Then(read_columns(agg, {"Quarter"}),
             IF df_empty(ins) THEN StepWarn("No insurance data available.")
             ELSE IF g.raised THEN StepRaise
             ELSE
        Then(summary_charts(scaled_column(g.df, "Amount_M", "Insurance_amount", 1000000),
                            "Insurance_amount", "Amount_M"),
        Then(px_chart(agg, {"Years", "Quarter", "Insurance_amount"}),
        Then(read_columns(ins, {"State", "Insurance_amount", "Insurance_count"}),
        Then(plotly_bar_chart(avg_policy(ins), "State", "Avg_Policy_Value"),
             px_chart(agg, {"Years", "Insurance_amount"})))))))

\* lines 483-520
market_expansion(data, yc, qc) ==
    LET map_transaction == data["map_transaction"]
        year == selectbox(sorted_unique(map_transaction, "Years"), yc)
        quarter ==
            selectbox(sorted_unique(filter_eq(map_transaction, "Years", year), "Quarter"), qc)
        exp == filter_period(map_transaction, year, quarter)
        g == groupby_sum(exp, "State", <<"Transaction_amount", "Transaction_count">>)
        exp_summary == scaled_column(g.df, "Amount_M", "Transaction_amount", 1000000)
    IN  Then(read_columns(map_transaction, {"Years"}),
        Then(read_columns(map_transaction, {"Quarter"}),
             IF df_empty(exp) THEN StepWarn("No transaction mapping data available.")
             ELSE IF g.raised THEN StepRaise
             ELSE
        Then(plotly_chart(create_choropleth_map(exp_summary, "Amount_M")),
        Then(plotly_bar_chart(nlargest(growth_score(exp), TopN, "Growth_Score"),
                              "State", "Growth_Score"),
        Then(plotly_bar_chart(nlargest(exp_summary, TopN, "Transaction_count"),
                              "State", "Transaction_count"),
        Then(px_chart(map_transaction, {"Years", "Transaction_amount"}),
             px_chart(exp_summary, {"Transaction_count", "Transaction_amount", "State"})))))))

\* lines 525-563
user_growth(data, yc, qc) ==
    LET map_user == data["map_user"]
        year == selectbox(sorted_unique(map_user, "Years"), yc)
        quarter == selectbox(sorted_unique(filter_eq(map_user, "Years", year), "Quarter"), qc)
        user == filter_period(map_user, year, quarter)
        g == groupby_sum(user, "State", <<"RegisteredUsers", "AppOpens">>)
        user_sum == scaled_column(g.df, "Users_K", "RegisteredUsers", 1000)
        d == groupby_sum(user, "District", <<"RegisteredUsers">>)
    IN  Then(read_columns(map_user, {"Years"}),
        Then(read_columns(map_user, {"Quarter"}),
             IF df_empty(user) THEN StepWarn("No user data available.")
             ELSE IF g.raised THEN StepRaise
             ELSE
        Then(plotly_chart(create_choropleth_map(user_sum, "Users_K")),
        Then(plotly_bar_chart(nlargest(engagement_rate(user), TopN, "Engagement_Rate"),
                              "State", "Engagement_Rate"),
        Then(px_chart(map_user, {"Years", "Quarter", "RegisteredUsers"}),
        Then(IF d.raised THEN StepRaise
             ELSE plotly_bar_chart(nlargest(d.df, TopN, "RegisteredUsers"),
                                   "District", "RegisteredUsers"),
             px_chart(user_sum, {"RegisteredUsers", "AppOpens", "State"})))))))

\* line 189 and lines 290-296: the sidebar selections
Pages ==
    { "Dashboard", "Transaction Dynamics Analysis", "Device Usage & User Engagement",
      "Insurance Market Analysis", "Market Expansion Strategy", "User Growth Analysis" }

CaseStudies == Pages \ {"Dashboard"}

\* the table whose years and quarters the select boxes of a case study offer
\* (lines 307, 362, 446, 489, 531)
period_table(page, data) ==
    CASE page = "Transaction Dynamics Analysis" -> data["agg_transaction"]
      [] page = "Device Usage & User Engagement" -> data["agg_user"]
      [] page = "Insurance Market Analysis" -> data["agg_insurance"]
      [] page = "Market Expansion Strategy" -> data["map_transaction"]
      [] OTHER -> data["map_user"]

\* the positions the user can choose in a select box: one per option (the
\* box shows no choice without options)
Choices(options) == IF options = <<>> THEN {1} ELSE 1..Len(options)

\* the choices of year and quarter a page offers; the Dashboard has no
\* select box, and a case study that fails on reading the column shows none
Selections(page, data) ==
    LET df == period_table(page, data)
        years == sorted_unique(df, "Years")
        quarters(yc) == sorted_unique(filter_eq(df, "Years", years[yc]), "Quarter")
    IN  IF page \notin CaseStudies \/ ~HasCol(df, "Years") \/ ~HasCol(df, "Quarter")
        THEN { <<1, 1>> }
        ELSE IF years = <<>> THEN { <<1, 1>> }
        ELSE UNION { { <<yc, qc>> : qc \in Choices(quarters(yc)) } : yc \in 1..Len(years) }

\* lines 194-563: the branch of the selected page
page_body(page, data, yc, qc) ==
    CASE page = "Dashboard" -> dashboard_page(data)
      [] page = "Transaction Dynamics Analysis" -> transaction_dynamics(data, yc, qc)
      [] page = "Device Usage & User Engagement" -> device_usage(data, yc, qc)
      [] page = "Insurance Market Analysis" -> insurance_market(data, yc, qc)
      [] page = "Market Expansion Strategy" -> market_expansion(data, yc, qc)
      [] OTHER -> user_growth(data, yc, qc)

-----------------------------------------------------------------------------
(* Spec: the process, its caches, and the render passes *)

NoCaches == [table_name \in TableNames |-> NotCached]
NoQueries == [table_name \in TableNames |-> 0]

FreshProcess ==
    /\ engineCache = NotCached
    /\ tableCache = NoCaches
    /\ allCache = NotCached
    /\ geoCache = NotCached
    /\ queryCount = NoQueries
    /\ engineCount = 0
    /\ geoCount = 0
    /\ rerendered = FALSE
    /\ runAt = "idle"
    /\ runIndex = 0
    /\ runStops = 0
    /\ renderPage = "none"
    /\ renderStatus = "none"
    /\ renderWarnings = {}
    /\ renderCharts = 0
    /\ renderSawUp = FALSE

\* the sets of tables the database may lack: none, any one of them, all
MissingSets == {{}} \cup {{table_name} : table_name \in TableNames} \cup {TableNames}

\* the respects in which an environment departs from the working one, the
\* availability of the database apart
Departures(createOk, missing, withRows, geoOk) ==
    (IF createOk THEN {} ELSE {"create_engine"})
    \cup (IF missing = {} THEN {} ELSE {"tables"})
    \cup (IF withRows THEN {} ELSE {"rows"})
    \cup (IF geoOk THEN {} ELSE {"geojson"})

\* a fresh process, the database up or down, in an environment that departs
\* from the working one in one respect at most
AppInit ==
    /\ envCreateOk \in BOOLEAN
    /\ envUp \in BOOLEAN
    /\ envMissing \in MissingSets
    /\ envRows \in BOOLEAN
    /\ envGeoOk \in BOOLEAN
    /\ \A a, b \in Departures(envCreateOk, envMissing, envRows, envGeoOk) : a = b
    /\ envChanges = 0
    /\ FreshProcess

AppIdle ==
    /\ envCreateOk = TRUE
    /\ envUp = TRUE
    /\ envMissing = {}
    /\ envRows = TRUE
    /\ envGeoOk = TRUE
    /\ envChanges = 0
    /\ FreshProcess

\* the caches and counters of the process, as the loaders are handed them
Process == ProcessState(engineCache, tableCache, queryCount, engineCount)

\* lines 183-184: where the script goes on once load_all_data has returned
after_load_all_data == IF memoized(geoCache) THEN "page" ELSE "load_geojson_data"

\* lines 115-117: the iteration of the loop at which load_all_data first
\* waits: the calls before it find their table cached and return at once
\* (the last iteration is a step in any case: load_all_data returns after it)
first_call(tcache) ==
    LET misses == { i \in 1..Len(tables) : ~memoized(tcache[tables[i][2]]) }
    IN  IF misses = {} THEN Len(tables)
        ELSE CHOOSE i \in misses : \A j \in misses : i <= j

\* A run of the script starts (the page is opened or reloaded, a widget or
\* the Rerun command is used) and passes line 14: line 183 calls
\* load_all_data, whose body runs unless its result is cached, and line 184
\* calls load_geojson_data likewise.
BeginRun ==
    /\ runAt = "idle"
    /\ runAt' = IF memoized(allCache) THEN after_load_all_data ELSE "load_all_data"
    /\ runIndex' = IF memoized(allCache) THEN 0 ELSE first_call(tableCache)
    /\ rerendered' = (rerendered \/ allCache.cached)
    /\ renderPage' = "none"
    /\ renderStatus' = "running"
    /\ renderWarnings' = {}
    /\ renderCharts' = 0
    /\ renderSawUp' = FALSE
    /\ UNCHANGED <<engineCache, tableCache, allCache, geoCache, queryCount, engineCount,
                   geoCount, runStops>>
    /\ UNCHANGED envVars
    /\ UNCHANGED notAppVars

\* lines 115-117: one iteration of the loop of load_all_data: the call of
\* load_table_data returns, with the database as it is while the query
\* blocks; after the last iteration load_all_data returns the dictionary
\* (line 119) and its result is cached.
LoadNextTable ==
    /\ runAt = "load_all_data"
    /\ LET table_name == tables[runIndex][2]
           p1 == call_load_table_data(Process, table_name, envCreateOk, envUp,
                                      envMissing, envRows)
       IN  /\ queryCount[table_name] < MaxQueries
           /\ engineCount < MaxQueries
           /\ engineCache' = p1.engineCache
           /\ tableCache' = p1.tableCache
           /\ queryCount' = p1.queryCount
           /\ engineCount' = p1.engineCount
           /\ IF runIndex < Len(tables)
              THEN /\ runIndex' = runIndex + 1
                   /\ UNCHANGED <<runAt, allCache>>
              ELSE /\ runIndex' = 0
                   /\ runAt' = after_load_all_data
                   /\ allCache' = Cached(data_of(p1))
    /\ UNCHANGED <<geoCache, geoCount, rerendered, runStops>>
    /\ UNCHANGED <<envVars, renderVars>>
    /\ UNCHANGED notAppVars

\* line 14: streamlit stops or reruns the script at st.set_page_config,
\* before anything is loaded
StopAtSetPageConfig ==
    /\ runAt = "idle"
    /\ renderPage' = "none"
    /\ renderStatus' = "stopped"
    /\ renderWarnings' = {}
    /\ renderCharts' = 0
    /\ renderSawUp' = FALSE
    /\ UNCHANGED <<cacheVars, runVars>>
    /\ UNCHANGED envVars
    /\ UNCHANGED notAppVars

\* lines 23-31 and 66-117: streamlit stops or reruns the script inside the
\* loop of load_all_data, at a spinner or at an st.error of the call in
\* progress: the run is over, and nothing is stored for load_all_data.
StopInLoader ==
    /\ runAt = "load_all_data"
    /\ LET table_name == tables[runIndex][2]
       IN  /\ queryCount[table_name] < MaxQueries
           /\ engineCount < MaxQueries
           /\ \E stop \in stopped_load_table_data(Process, table_name, envCreateOk, envUp,
                                                   envMissing, envRows) :
                 /\ stop.lost => envChanges + runStops < MaxEvents
                 /\ engineCache' = stop.p.engineCache
                 /\ tableCache' = stop.p.tableCache
                 /\ queryCount' = stop.p.queryCount
                 /\ engineCount' = stop.p.engineCount
                 /\ runStops' = runStops + (IF stop.lost THEN 1 ELSE 0)
    /\ runAt' = "idle"
    /\ runIndex' = 0
    /\ renderStatus' = "stopped"
    /\ UNCHANGED <<allCache, geoCache, geoCount, rerendered>>
    /\ UNCHANGED <<renderPage, renderWarnings, renderCharts, renderSawUp>>
    /\ UNCHANGED envVars
    /\ UNCHANGED notAppVars

\* line 184: load_geojson_data reads the file and returns; its result is
\* cached
LoadGeoJson ==
    /\ runAt = "load_geojson_data"
    /\ geoCount < MaxQueries
    /\ geoCache' = Cached(load_geojson_data(geojson_file(envGeoOk)))
    /\ geoCount' = geoCount + 1
    /\ runAt' = "page"
    /\ UNCHANGED <<engineCache, tableCache, allCache, queryCount, engineCount, rerendered,
                   runIndex, runStops>>
    /\ UNCHANGED <<envVars, renderVars>>
    /\ UNCHANGED notAppVars

\* lines 36-64 and 184: streamlit stops or reruns the script inside
\* load_geojson_data, at a spinner or at its st.error
StopInGeoJson ==
    /\ runAt = "load_geojson_data"
    /\ geoCount < MaxQueries
    /\ \E stop \in stopped_load_geojson_data(geoCache, geoCount, geojson_file(envGeoOk)) :
          /\ stop.lost => envChanges + runStops < MaxEvents
          /\ geoCache' = stop.geoCache
          /\ geoCount' = stop.geoCount
          /\ runStops' = runStops + (IF stop.lost THEN 1 ELSE 0)
    /\ runAt' = "idle"
    /\ renderStatus' = "stopped"
    /\ UNCHANGED <<engineCache, tableCache, allCache, queryCount, engineCount,
                   rerendered, runIndex>>
    /\ UNCHANGED <<renderPage, renderWarnings, renderCharts, renderSawUp>>
    /\ UNCHANGED envVars
    /\ UNCHANGED notAppVars

\* lines 187-563: the sidebar and the branch of the selected page run to the
\* end of the script, or to the exception that leaves it
RenderPage ==
    /\ runAt = "page"
    /\ \E page \in Pages :
          \E selection \in Selections(page, allCache.value) :
             LET body == page_body(page, allCache.value, selection[1], selection[2])
             IN  /\ renderPage' = page
                 /\ renderStatus' = IF body.raised THEN "exception" ELSE "ok"
                 /\ renderWarnings' = body.warnings
                 /\ renderCharts' = body.charts
    /\ renderSawUp' = envUp
    /\ runAt' = "idle"
    /\ UNCHANGED <<cacheVars, runIndex, runStops>>
    /\ UNCHANGED envVars
    /\ UNCHANGED notAppVars

\* lines 184-563: streamlit stops or reruns the script at an st.* call of
\* the sidebar or the page, or at the spinner of a loader whose result was
\* cached; what the run had drawn is taken off the screen
StopInPage ==
    /\ runAt = "page"
    /\ runAt' = "idle"
    /\ renderStatus' = "stopped"
    /\ UNCHANGED <<renderPage, renderWarnings, renderCharts, renderSawUp>>
    /\ UNCHANGED <<cacheVars, runIndex, runStops>>
    /\ UNCHANGED envVars
    /\ UNCHANGED notAppVars

\* the database goes down, or comes back: between two runs, or while a run
\* waits for a query
SourceChange ==
    /\ envChanges + runStops < MaxEvents
    /\ envUp' = ~envUp
    /\ envChanges' = envChanges + 1
    /\ UNCHANGED <<envCreateOk, envMissing, envRows, envGeoOk>>
    /\ UNCHANGED <<cacheVars, runVars, renderVars>>
    /\ UNCHANGED notAppVars

\* the process ends and a fresh one starts: nothing is cached
Restart ==
    /\ renderStatus # "none"
    /\ engineCache' = NotCached
    /\ tableCache' = NoCaches
    /\ allCache' = NotCached
    /\ geoCache' = NotCached
    /\ queryCount' = NoQueries
    /\ engineCount' = 0
    /\ geoCount' = 0
    /\ rerendered' = FALSE
    /\ runAt' = "idle"
    /\ runIndex' = 0
    /\ runStops' = 0
    /\ renderPage' = "none"
    /\ renderStatus' = "none"
    /\ renderWarnings' = {}
    /\ renderCharts' = 0
    /\ renderSawUp' = FALSE
    /\ envChanges' = 0
    /\ UNCHANGED <<envCreateOk, envUp, envMissing, envRows, envGeoOk>>
    /\ UNCHANGED notAppVars

Next ==
    \/ BeginRun
    \/ StopAtSetPageConfig
    \/ LoadNextTable
    \/ StopInLoader
    \/ LoadGeoJson
    \/ StopInGeoJson
    \/ RenderPage
    \/ StopInPage
    \/ SourceChange
    \/ Restart

-----------------------------------------------------------------------------
(* Claims about the running application (checked under Spec) *)

\* C1: no error is fatal: whatever the load outcome (database unavailable,
\* query failure for any subset of the tables, GeoJSON failure) and whatever
\* page or case study is selected, the render pass completes and never ends
\* in an uncaught exception.
C1_RenderNeverRaises == renderStatus # "exception"

\* C3: within one process each table is queried at most once, and the engine
\* and the GeoJSON reference are constructed at most once, however many render
\* passes run.
C3_QueriedAtMostOnce ==
    /\ \A table_name \in TableNames : queryCount[table_name] <= 1
    /\ engineCount <= 1
    /\ geoCount <= 1

\* a loader that returned is not run again: a table is queried, the engine
\* constructed and the file read only by a process that holds no entry for it
RunsOnlyWithoutEntry ==
    [][/\ \A table_name \in TableNames :
             queryCount'[table_name] > queryCount[table_name] =>
                ~tableCache[table_name].cached
       /\ engineCount' > engineCount => ~engineCache.cached
       /\ geoCount' > geoCount => ~geoCache.cached]_vars

\* C14: a failed load is memoised like a successful one.  Once the cache of
\* a table holds the empty table of a failed load, every later step of the
\* same process leaves that entry and the table's query count as they are,
\* and the dictionary load_all_data returns to a render pass holds the empty
\* table, whether or not the database has come back; a table is queried only
\* by a process that has no entry for it.
C14_FailedLoadIsKept ==
    [][\A key \in DataKeys :
          LET table_name == table_of(key)
          IN  /\ (/\ tableCache[table_name].cached
                  /\ tableCache[table_name].value = EmptyDF
                  /\ renderStatus' # "none") =>
                     /\ tableCache'[table_name] = tableCache[table_name]
                     /\ queryCount'[table_name] = queryCount[table_name]
                     /\ allCache'.cached => allCache'.value[key] = EmptyDF
                     /\ runAt' = "page" => allCache'.cached
              /\ queryCount'[table_name] > queryCount[table_name] =>
                     ~tableCache[table_name].cached]_vars

\* C14 witness: a query of this process failed while the database was down,
\* the database came back, and a later render pass of the same process, begun
\* with the caches filled, still got the empty table without a second query.
C14_Witness ==
    /\ renderStatus \in {"ok", "exception"}
    /\ rerendered
    /\ renderSawUp
    /\ envUp
    /\ envCreateOk
    /\ \E key \in DataKeys :
          /\ table_of(key) \notin envMissing
          /\ tableCache[table_of(key)] = Cached(EmptyDF)
          /\ queryCount[table_of(key)] = 1
          /\ allCache.cached
          /\ allCache.value[key] = EmptyDF

-----------------------------------------------------------------------------
(* Specifications *)

\* one region value through a loader, once and twice
InitNorm == NormInit /\ LoadIdle /\ AggIdle /\ TopIdle /\ AppIdle
SpecNorm == InitNorm /\ [][NormNext]_vars

\* one call of load_table_data
InitLoad == LoadInit /\ NormIdle /\ AggIdle /\ TopIdle /\ AppIdle
SpecLoad == InitLoad /\ [][LoadNext]_vars

\* aggregation, ratio measures and chart builders on one table
InitAgg == AggInit /\ NormIdle /\ LoadIdle /\ TopIdle /\ AppIdle
SpecAgg == InitAgg /\ [][AggNext]_vars

\* one top-N selection over a table of group sums
InitTop == TopInit /\ NormIdle /\ LoadIdle /\ AggIdle /\ AppIdle
SpecTop == InitTop /\ [][TopNext]_vars

\* the running application: the runs of the script step by step, the source
\* coming and going, streamlit stopping a run, and restarts of the process
Init == AppInit /\ NormIdle /\ LoadIdle /\ AggIdle /\ TopIdle
Spec == Init /\ [][Next]_vars

=============================================================================
